---- MODULE Spec2Model ----
(***************************************************************************)
(* Conway's Game of Life on a toroidal N x N grid (life_simulation.py):    *)
(* the two seeding functions random_grid and add_glider, the generation    *)
(* step update, and the part of main that creates the grid and then calls  *)
(* update again and again.  The grid is a two-dimensional numpy array; it  *)
(* is modelled as the sequence of its rows, each the sequence of its cell  *)
(* values, so that element [i, j] of the array is grid[i + 1][j + 1].      *)
(***************************************************************************)
EXTENDS Integers, Sequences, FiniteSets, TLC

VARIABLES pc, N, grid, prev, totals, last, seed, gen, args

vars == <<pc, N, grid, prev, totals, last, seed, gen, args>>

(* ------------------------------ bounds --------------------------------- *)

\* random_grid(n) is called with n in -MaxNeg .. MaxN; every n x n grid of
\* ON/OFF values is a possible result.
MaxN == 3
MaxNeg == 2
\* the glider demo of main (add_glider(1, 1, grid)) runs on all-zero grids of
\* size MinGliderN .. MaxGliderN
MaxGliderN == 10
\* the library runs stamp and step grids of size 1 .. MaxStampN
MaxStampN == 5
\* in the library runs the anchors of add_glider range over -(N + AnchorMargin) .. N + AnchorMargin - 3
AnchorMargin == 4
\* the generation counter counts the calls of update and stops at MaxGen
MaxGen == 5
\* the library runs on which every update is repeated on each of the N * N
\* shifted grids have size 1 .. MaxShiftN
MaxShiftN == 4
\* a run of main is followed for MaxFrames calls of update
MaxFrames == 2

(* --------------------------- module constants -------------------------- *)

ON == 255
OFF == 0
vals == <<ON, OFF>>

\* the smallest grid size main accepts from --grid-size is 9 (int(args.N) > 8)
MinGliderN == 9

\* the grid size of main when --grid-size gives none (N = 100)
DefaultN == 100

\* the glider table with its rows typed in the other usual orientation
gliderTyped == << <<0, 255, 0>>,
                  <<0, 0, 255>>,
                  <<255, 255, 255>> >>

\* the glider table of add_glider, row by row
glider == << <<0, 0, 255>>,
             <<255, 0, 255>>,
             <<0, 255, 255>> >>

\* the value that stands for a raised IndexError in an array read
IndexError == -1

Cells(n) == (0 .. n - 1) \X (0 .. n - 1)

\* np.array([]): the grid main declares before it seeds it
EmptyGrid == << >>

\* element [i, j] of the array g, for 0 <= i, j
At(g, i, j) == g[i + 1][j + 1]

\* a call record: the operation, its arguments and whether it returned
\* normally (ok) or raised
Call(op, a, b, ok) == [op |-> op, a |-> a, b |-> b, ok |-> ok]

NoSeed == [kind |-> "none", i |-> 0, j |-> 0]

\* the parsed command line: args.N is None (given = FALSE) or the text after
\* --grid-size, a sequence of characters; args.glider is the --glider flag
Args(given, text, flag) == [given |-> given, text |-> text, glider |-> flag]

\* no command line: the functions are called directly
NoArgs == Args(FALSE, << >>, FALSE)

(* ------------------------------ random_grid ---------------------------- *)

\* ReshapeRaises with a size check that also rejects n = 0
ReshapeRaisesNonPositive(n) == n <= 0

\* ndarray.reshape(n, n) of a flat array of n*n elements: two negative
\* dimensions raise ValueError; otherwise element k (from 0) goes to row
\* k \div n, column k % n.
ReshapeRaises(n) == n < 0

Reshape(flat, n) == [r \in 1 .. n |-> [c \in 1 .. n |-> flat[(r - 1) * n + c]]]

\* np.random.choice(vals, n*n, p=[0.2, 0.8]): any sequence of n*n values
\* drawn from vals
Choice(n) == [1 .. n * n -> {vals[1], vals[2]}]

(* ------------------------------- add_glider ---------------------------- *)

\* SliceBound without Python's from-the-end reading of a negative bound: a
\* negative bound is clipped to 0
SliceBoundClip(x, n) ==
    IF x < 0 THEN 0
    ELSE (IF x > n THEN n ELSE x)

\* Python's slice(start, stop).indices(n) for step 1: a negative bound is
\* taken from the end, then both are clipped to 0 .. n
SliceBound(x, n) ==
    IF x < 0 THEN (IF x + n < 0 THEN 0 ELSE x + n)
    ELSE (IF x > n THEN n ELSE x)

SliceRange(start, stop, n) == SliceBound(start, n) .. (SliceBound(stop, n) - 1)

\* numpy broadcasting of a source dimension into a target dimension
CanBroadcast(src, dst) == src = dst \/ src = 1

\* SetSlice that rebuilds the grid from zeros around the stamp
SetSliceClear(g, i, j, n) ==
    LET rows == SliceRange(i, i + 3, n)
        cols == SliceRange(j, j + 3, n)
        r0 == SliceBound(i, n)
        c0 == SliceBound(j, n)
    IN  IF CanBroadcast(Len(glider), Cardinality(rows))
           /\ CanBroadcast(Len(glider[1]), Cardinality(cols))
        THEN [raised |-> FALSE,
              grid |-> [r \in DOMAIN g |-> [c \in DOMAIN g[r] |->
                          IF (r - 1) \in rows /\ (c - 1) \in cols
                          THEN glider[r - r0][c - c0]
                          ELSE OFF]]]
        ELSE [raised |-> TRUE, grid |-> g]

\* SetSlice that copies cell by cell and raises only when it runs out of the
\* grid: the cells of the overlap are already written
SetSlicePartial(g, i, j, n) ==
    LET rows == SliceRange(i, i + 3, n)
        cols == SliceRange(j, j + 3, n)
        r0 == SliceBound(i, n)
        c0 == SliceBound(j, n)
    IN  [raised |-> ~(CanBroadcast(Len(glider), Cardinality(rows))
                      /\ CanBroadcast(Len(glider[1]), Cardinality(cols))),
         grid |-> [r \in DOMAIN g |-> [c \in DOMAIN g[r] |->
                          IF (r - 1) \in rows /\ (c - 1) \in cols
                          THEN glider[r - r0][c - c0]
                          ELSE g[r][c]]]]

\* grid[i:i+3, j:j+3] = glider: the shapes are compared first, and a
\* mismatch raises ValueError before any cell is written
SetSlice(g, i, j, n) ==
    LET rows == SliceRange(i, i + 3, n)
        cols == SliceRange(j, j + 3, n)
        r0 == SliceBound(i, n)
        c0 == SliceBound(j, n)
    IN  IF CanBroadcast(Len(glider), Cardinality(rows))
           /\ CanBroadcast(Len(glider[1]), Cardinality(cols))
        THEN [raised |-> FALSE,
              grid |-> [r \in DOMAIN g |-> [c \in DOMAIN g[r] |->
                          IF (r - 1) \in rows /\ (c - 1) \in cols
                          THEN glider[r - r0][c - c0]
                          ELSE g[r][c]]]]
        ELSE [raised |-> TRUE, grid |-> g]

(* --------------------------------- update ------------------------------ *)

\* Wrap for a grid with walls: the index is clamped to 0 .. n-1
WrapClamp(k, n) == IF k < 0 THEN 0 ELSE (IF k > n - 1 THEN n - 1 ELSE k)

\* Wrap for a grid with mirrors: the index is reflected at the edge
WrapMirror(k, n) ==
    IF k < 0 THEN (0 - k) % n
    ELSE (IF k > n - 1 THEN (2 * n - 2 - k) % n ELSE k)

\* Wrap left out: the index is used as it is
WrapNone(k, n) == k

\* the index expression (k) % N of update
Wrap(k, n) == k % n

\* a numpy index k on an axis of length n: an index in -n .. n-1 is valid (a
\* negative one counts from the end), any other raises IndexError
NpIndex(k, n) ==
    IF k >= 0 THEN (IF k < n THEN k ELSE IndexError)
    ELSE (IF k >= 0 - n THEN k + n ELSE IndexError)

\* total = int((grid[i, (j-1)%N] + ... + grid[(i+1)%N, (j+1)%N]) / 255), the
\* eight reads in the order of the source, or IndexError when an index is
\* out of range.  (Here and below a value that is read more than once is
\* bound through a singleton set, {e(t) : t \in {...}}, so that it is
\* evaluated once.)
Total(g, i, j, n) ==
    CHOOSE t \in
      { IF IndexError \in {up, down, left, right}
        THEN IndexError
        ELSE (At(g, i, left) + At(g, i, right) +
              At(g, up, j) + At(g, down, j) +
              At(g, up, left) + At(g, up, right) +
              At(g, down, left) + At(g, down, right)) \div 255 :
          up \in {NpIndex(Wrap(i - 1, n), n)},
          down \in {NpIndex(Wrap(i + 1, n), n)},
          left \in {NpIndex(Wrap(j - 1, n), n)},
          right \in {NpIndex(Wrap(j + 1, n), n)} } : TRUE

\* ReadFrom with the in-place slip: the loop reads the array it is writing
ReadFromNew(g, new_grid) == new_grid

\* the array the loop body reads the current generation from: grid, never
\* new_grid
ReadFrom(g, new_grid) == g

\* ApplyRules with the overpopulation test off by one (total > 4)
ApplyRulesLate(cell, new_grid, i, j, total) ==
    IF cell = ON
    THEN IF (total < 2) \/ (total > 4)
         THEN [new_grid EXCEPT ![i + 1][j + 1] = OFF]
         ELSE new_grid
    ELSE IF total = 3
         THEN [new_grid EXCEPT ![i + 1][j + 1] = ON]
         ELSE new_grid

\* ApplyRules writing 1 for a cell that is born, in place of ON
ApplyRulesOne(cell, new_grid, i, j, total) ==
    IF cell = ON
    THEN IF (total < 2) \/ (total > 3)
         THEN [new_grid EXCEPT ![i + 1][j + 1] = OFF]
         ELSE new_grid
    ELSE IF total = 3
         THEN [new_grid EXCEPT ![i + 1][j + 1] = 1]
         ELSE new_grid

\* "apply Conway's rules": the write to new_grid[i, j]
ApplyRules(cell, new_grid, i, j, total) ==
    IF cell = ON
    THEN IF (total < 2) \/ (total > 3)
         THEN [new_grid EXCEPT ![i + 1][j + 1] = OFF]
         ELSE new_grid
    ELSE IF total = 3
         THEN [new_grid EXCEPT ![i + 1][j + 1] = ON]
         ELSE new_grid

\* the rest of a pass of the loop body for cell (i, j), once total is
\* computed: s holds new_grid and the values of total computed so far (in
\* the order of the passes), cell is the cell's value in the array read
AfterTotal(s, cell, i, j, total) ==
    IF total = IndexError
    THEN [s EXCEPT !.raised = TRUE]
    ELSE [raised |-> FALSE,
          new_grid |-> ApplyRules(cell, s.new_grid, i, j, total),
          totals |-> Append(s.totals, total)]

\* one pass of the loop body for cell (i, j); a raised IndexError ends the loop
LoopBody(s, g, i, j, n) ==
    IF s.raised THEN s
    ELSE CHOOSE r \in
           {AfterTotal(s, At(ReadFrom(g, s.new_grid), i, j), i, j, total) :
              total \in {Total(ReadFrom(g, s.new_grid), i, j, n)}} : TRUE

\* the loops of update run their passes one after the other; a run of passes
\* lo .. hi-1 is the run lo .. mid-1 followed by the run mid .. hi-1, which
\* keeps the depth of the evaluation logarithmic in N.

\* the passes j = lo .. hi-1 of the inner loop "for j in range(N)" of row i,
\* entered with s
RECURSIVE ColumnLoop(_, _, _, _, _, _)
ColumnLoop(lo, hi, s, g, i, n) ==
    IF hi <= lo
    THEN s
    ELSE IF hi = lo + 1
         THEN LoopBody(s, g, i, lo, n)
         ELSE CHOOSE r \in {ColumnLoop((lo + hi) \div 2, hi, t, g, i, n) :
                               t \in {ColumnLoop(lo, (lo + hi) \div 2, s, g, i, n)}} : TRUE

\* the passes i = lo .. hi-1 of the outer loop "for i in range(N)", entered
\* with s
RECURSIVE UpdateLoop(_, _, _, _, _)
UpdateLoop(lo, hi, s, g, n) ==
    IF hi <= lo
    THEN s
    ELSE IF hi = lo + 1
         THEN ColumnLoop(0, n, s, g, lo, n)
         ELSE CHOOSE r \in {UpdateLoop((lo + hi) \div 2, hi, t, g, n) :
                               t \in {UpdateLoop(lo, (lo + hi) \div 2, s, g, n)}} : TRUE

\* update(frame_num, img, grid, N) up to "grid[:] = new_grid[:]"; new_grid
\* starts as grid.copy()
UpdateCall(g, n) ==
    UpdateLoop(0, n, [raised |-> FALSE, new_grid |-> g, totals |-> << >>], g, n)

(* -------------------------------- actions ------------------------------ *)

Bump(k) == IF k < MaxGen THEN k + 1 ELSE k

\* main, "populate grid with random on/off": grid = random_grid(n), the
\* draw of np.random.choice taken from draws
RandomGridFrom(n, draws) ==
    /\ pc = "start"
    /\ IF ReshapeRaises(n)
       THEN /\ pc' = "error"
            /\ last' = Call("random_grid", n, 0, FALSE)
            /\ UNCHANGED <<N, grid, seed>>
       ELSE /\ \E flat \in draws : grid' = Reshape(flat, n)
            /\ pc' = "run"
            /\ N' = n
            /\ last' = Call("random_grid", n, 0, TRUE)
            /\ seed' = [kind |-> "random", i |-> 0, j |-> 0]
    /\ prev' = grid
    /\ UNCHANGED <<totals, gen, args>>

\* grid = random_grid(n) with any draw
RandomGrid(n) == RandomGridFrom(n, Choice(n))

\* main, glider demo: grid = np.zeros(N*N).reshape(N, N)
Zeros(n) ==
    /\ pc = "start"
    /\ grid' = [r \in 1 .. n |-> [c \in 1 .. n |-> 0]]
    /\ N' = n
    /\ pc' = "stamp"
    /\ last' = Call("zeros", n, 0, TRUE)
    /\ prev' = grid
    /\ UNCHANGED <<totals, seed, gen, args>>

\* add_glider(i, j, grid)
AddGlider(i, j) ==
    /\ pc = "stamp"
    /\ \E r \in {SetSlice(grid, i, j, N)} :
           /\ grid' = r.grid
           /\ pc' = IF r.raised THEN "error" ELSE "run"
           /\ last' = Call("add_glider", i, j, ~r.raised)
           /\ seed' = IF r.raised THEN seed
                      ELSE [kind |-> "glider", i |-> i, j |-> j]
    /\ prev' = grid
    /\ UNCHANGED <<N, totals, gen, args>>

\* one call of update by the animation; img.set_data is rendering only
Update ==
    /\ pc = "run"
    /\ \E r \in {UpdateCall(grid, N)} :
           IF r.raised
           THEN /\ pc' = "error"
                /\ last' = Call("update", 0, 0, FALSE)
                /\ UNCHANGED <<grid, totals, gen>>
           ELSE /\ grid' = r.new_grid
                /\ totals' = r.totals
                /\ gen' = Bump(gen)
                /\ last' = Call("update", 0, 0, TRUE)
                /\ pc' = "run"
    /\ prev' = grid
    /\ UNCHANGED <<N, seed, args>>

Anchors(n) == (0 - (n + AnchorMargin)) .. (n + AnchorMargin - 3)

(* ------------- the functions called directly, with any size ----------- *)

\* random_grid, or np.zeros and add_glider(1, 1, grid) as in the glider demo,
\* and then update again and again

Init ==
    /\ pc = "start"
    /\ N = 0
    /\ grid = EmptyGrid
    /\ prev = EmptyGrid
    /\ totals = << >>
    /\ last = Call("none", 0, 0, TRUE)
    /\ seed = NoSeed
    /\ gen = 0
    /\ args = NoArgs

Next ==
    \/ \E n \in (0 - MaxNeg) .. MaxN : RandomGrid(n)
    \/ \E n \in MinGliderN .. MaxGliderN : Zeros(n)
    \/ AddGlider(1, 1)
    \/ Update

Spec == Init /\ [][Next]_vars

(* ------------------- the library: stamp and step any grid -------------- *)

\* the grids random_grid(n) can return that are uniform but for at most one
\* cell (x = <<n, n>> is no cell: the uniform grids)
UniformButOne(n) ==
    { [r \in 1 .. n |-> [c \in 1 .. n |->
            IF <<r - 1, c - 1>> = x THEN (ON + OFF) - b ELSE b]] :
        x \in Cells(n) \cup {<<n, n>>}, b \in {ON, OFF} }

\* a grid of random_grid(N) that the caller is about to stamp (add_glider) or
\* to step (update)
InitLib ==
    /\ N \in 1 .. MaxStampN
    /\ grid \in UniformButOne(N)
    /\ pc \in {"stamp", "run"}
    /\ prev = EmptyGrid
    /\ totals = << >>
    /\ last = Call("random_grid", N, 0, TRUE)
    /\ seed = [kind |-> "random", i |-> 0, j |-> 0]
    /\ gen = 0
    /\ args = NoArgs

NextLib ==
    \/ \E i \in Anchors(N), j \in Anchors(N) : AddGlider(i, j)
    \/ Update

SpecLib == InitLib /\ [][NextLib]_vars

\* the library runs on the grids of size 1 .. MaxShiftN
InitShift ==
    /\ InitLib
    /\ N <= MaxShiftN

SpecShift == InitShift /\ [][NextLib]_vars

(* --------------------------- the program: main ------------------------- *)

\* the characters "0" .. "9" in order
Digits == <<"0", "1", "2", "3", "4", "5", "6", "7", "8", "9">>

IsDigit(c) == \E d \in DOMAIN Digits : Digits[d] = c

DigitValue(c) == (CHOOSE d \in DOMAIN Digits : Digits[d] = c) - 1

\* the text without its sign
Unsigned(text) ==
    IF text # << >> /\ Head(text) \in {"-", "+"} THEN Tail(text) ELSE text

\* int(text) raises ValueError unless the text is an optional sign followed
\* by one or more digits (the texts of the model hold no blanks and no
\* underscores, which int would skip)
IntRaises(text) ==
    \/ Unsigned(text) = << >>
    \/ \E k \in DOMAIN Unsigned(text) : ~IsDigit(Unsigned(text)[k])

\* the value of a sequence of digits, read in base ten
RECURSIVE Magnitude(_)
Magnitude(u) ==
    IF u = << >>
    THEN 0
    ELSE Magnitude(SubSeq(u, 1, Len(u) - 1)) * 10 + DigitValue(u[Len(u)])

\* int(text) for a text that int accepts
IntOf(text) ==
    IF Head(text) = "-"
    THEN 0 - Magnitude(Unsigned(text))
    ELSE Magnitude(Unsigned(text))

\* the truth value of args.N: None and the empty text are false
Truthy(a) == a.given /\ a.text # << >>

\* AcceptsSize that also takes 8
AcceptsSizeFrom8(k) == k >= 8

\* the test "int(args.N) > 8"
AcceptsSize(k) == k > 8

\* main, "set grid" and "declare grid": N = 100; if args.N and
\* int(args.N) > 8: N = int(args.N); grid = np.array([]).  (--interval,
\* --mov-file and --gosper do not reach the grid and are left out.)
ParseArgs ==
    /\ pc = "main"
    /\ IF Truthy(args) /\ IntRaises(args.text)
       THEN /\ pc' = "error"
            /\ last' = Call("int", 0, 0, FALSE)
            /\ UNCHANGED N
       ELSE /\ N' = IF Truthy(args) /\ AcceptsSize(IntOf(args.text))
                    THEN IntOf(args.text)
                    ELSE DefaultN
            /\ pc' = "start"
            /\ last' = Call("parse_args", 0, 0, TRUE)
    /\ grid' = EmptyGrid
    /\ prev' = grid
    /\ UNCHANGED <<totals, seed, gen, args>>

\* the decimal text of a natural number, and of an integer
RECURSIVE Decimal(_)
Decimal(k) ==
    IF k < 10 THEN <<Digits[k + 1]>>
    ELSE Append(Decimal(k \div 10), Digits[(k % 10) + 1])

Text(k) == IF k < 0 THEN <<"-">> \o Decimal(0 - k) ELSE Decimal(k)

\* the integers given to --grid-size: -MaxNeg .. 0 and the sizes on both
\* sides of the test, up to MaxGliderN
Sizes == ((0 - MaxNeg) .. 0) \cup ((MinGliderN - MaxNeg) .. MaxGliderN)

\* the texts given to --grid-size: the integers of Sizes in decimal, 9
\* written with a sign and with a leading zero, the empty text and two texts
\* that are no integer
SizeTexts ==
    {Text(k) : k \in Sizes}
      \cup {<<"+", "9">>, <<"0", "9">>, << >>, <<"x">>, <<"9", ".", "5">>}

CommandLines ==
    {Args(FALSE, << >>, flag) : flag \in BOOLEAN}
      \cup {Args(TRUE, text, flag) : text \in SizeTexts, flag \in BOOLEAN}

\* draws of np.random.choice(vals, n*n): a block and a blinker (ON at the
\* listed places of the flat array), and all ON
Sample(n) ==
    {[k \in 1 .. n * n |-> IF k \in places THEN ON ELSE OFF] :
        places \in {{1, 2, n + 1, n + 2}, {1, 2, 3}}}
      \cup {[k \in 1 .. n * n |-> ON]}

InitMain ==
    /\ pc = "main"
    /\ N = 0
    /\ grid = EmptyGrid
    /\ prev = EmptyGrid
    /\ totals = << >>
    /\ last = Call("none", 0, 0, TRUE)
    /\ seed = NoSeed
    /\ gen = 0
    /\ args \in CommandLines

\* main, and then the animation's calls of update, MaxFrames of them
NextMain ==
    \/ ParseArgs
    \/ (args.glider /\ Zeros(N))
    \/ AddGlider(1, 1)
    \/ (~args.glider /\ RandomGridFrom(N, Sample(N)))
    \/ (gen < MaxFrames /\ Update)

SpecMain == InitMain /\ [][NextMain]_vars

(* ------------------------ vocabulary of the claims --------------------- *)

\* the eight neighbour offsets (i, j+-1), (i+-1, j), (i+-1, j+-1)
Offsets == ({-1, 0, 1} \X {-1, 0, 1}) \ {<<0, 0>>}

\* the number of offsets at which cell (i, j) of g finds an ALIVE cell, each
\* index taken modulo n: a cell found at several offsets counts once for each
NeighbourCount(g, i, j, n) ==
    Cardinality({d \in Offsets : At(g, (i + d[1]) % n, (j + d[2]) % n) = ON})

\* the value of total that the last update computed for cell (i, j)
TotalAt(i, j) == totals[i * N + j + 1]

\* the rule table, as a function of the cell's state and its total
RuleTable(cell, total) ==
    IF cell = ON THEN (IF total = 2 \/ total = 3 THEN ON ELSE OFF)
    ELSE (IF total = 3 THEN ON ELSE OFF)

\* the simultaneous (buffered) next generation of g
BufferedNext(g, n) ==
    [r \in 1 .. n |-> [c \in 1 .. n |->
        RuleTable(g[r][c], NeighbourCount(g, r - 1, c - 1, n))]]

\* the result of rewriting g cell by cell in row-major order, every cell
\* computed from the grid as rewritten so far: the first k cells of row i ...
RECURSIVE InPlaceRow(_, _, _, _)
InPlaceRow(k, g, i, n) ==
    IF k = 0
    THEN g
    ELSE LET h == InPlaceRow(k - 1, g, i, n)
         IN  [h EXCEPT ![i + 1][k] =
                  RuleTable(h[i + 1][k], NeighbourCount(h, i, k - 1, n))]

\* ... and the first k rows
RECURSIVE InPlaceNext(_, _, _)
InPlaceNext(k, g, n) ==
    IF k = 0
    THEN g
    ELSE CHOOSE r \in {InPlaceRow(n, h, k - 1, n) : h \in {InPlaceNext(k - 1, g, n)}} : TRUE

Updated == last.op = "update" /\ last.ok

\* g has n rows of n cells
IsGrid(g, n) == DOMAIN g = 1 .. n /\ \A r \in 1 .. n : DOMAIN g[r] = 1 .. n

\* the all-DEAD n x n grid with the glider's five ALIVE cells at anchor (a, b)
GliderAt(n, a, b) ==
    [r \in 1 .. n |-> [c \in 1 .. n |->
        IF <<r - 1 - a, c - 1 - b>> \in {<<0, 2>>, <<1, 0>>, <<1, 2>>, <<2, 1>>, <<2, 2>>}
        THEN ON ELSE OFF]]

\* g shifted cyclically by (a, b): cell (i, j) of g is cell
\* ((i + a) % n, (j + b) % n) of the result
Shift(g, a, b, n) ==
    [r \in 1 .. n |-> [c \in 1 .. n |->
        g[((r - 1 - a) % n) + 1][((c - 1 - b) % n) + 1]]]

\* the number of ALIVE cells of the n x n grid g
AliveCount(g, n) == Cardinality({c \in Cells(n) : At(g, c[1], c[2]) = ON})

(* -------------------------------- claims ------------------------------- *)

\* C1: after a call of update, every cell's new state is the rule table's
\* entry for the cell's old state and the total that update computed for it:
\* ON with total < 2 is OFF, ON with total 2 or 3 is ON, ON with total > 3 is
\* OFF, OFF with total 3 is ON, OFF with any other total is OFF; every total is
\* in 0 .. 8.
C1_RuleTable ==
    Updated =>
        \A c \in Cells(N) :
            LET t == TotalAt(c[1], c[2])
            IN  /\ t \in 0 .. 8
                /\ (At(prev, c[1], c[2]) = ON /\ t < 2) => At(grid, c[1], c[2]) = OFF
                /\ (At(prev, c[1], c[2]) = ON /\ (t = 2 \/ t = 3)) => At(grid, c[1], c[2]) = ON
                /\ (At(prev, c[1], c[2]) = ON /\ t > 3) => At(grid, c[1], c[2]) = OFF
                /\ (At(prev, c[1], c[2]) = OFF /\ t = 3) => At(grid, c[1], c[2]) = ON
                /\ (At(prev, c[1], c[2]) = OFF /\ t # 3) => At(grid, c[1], c[2]) = OFF

\* an update in which all five rows of the table were used
C1_Witness ==
    /\ Updated
    /\ \E c \in Cells(N) : At(prev, c[1], c[2]) = ON /\ TotalAt(c[1], c[2]) > 3 /\ At(grid, c[1], c[2]) = OFF
    /\ \E c \in Cells(N) : At(prev, c[1], c[2]) = ON /\ TotalAt(c[1], c[2]) \in {2, 3} /\ At(grid, c[1], c[2]) = ON
    /\ \E c \in Cells(N) : At(prev, c[1], c[2]) = OFF /\ TotalAt(c[1], c[2]) = 3 /\ At(grid, c[1], c[2]) = ON
    /\ \E c \in Cells(N) : At(prev, c[1], c[2]) = ON /\ TotalAt(c[1], c[2]) < 2 /\ At(grid, c[1], c[2]) = OFF
    /\ \E c \in Cells(N) : At(prev, c[1], c[2]) = OFF /\ TotalAt(c[1], c[2]) # 3 /\ At(grid, c[1], c[2]) = OFF

\* C3: when update returns, the grid is the buffered next generation of the
\* grid the call began with, and whenever rewriting the cells one by one in
\* place would give another grid, the grid is not that one.
C3_BufferedNotInPlace ==
    Updated =>
        LET buffered == BufferedNext(prev, N)
            inplace == InPlaceNext(N, prev, N)
        IN  /\ grid = buffered
            /\ inplace # buffered => grid # inplace

\* an update of a grid on which the in-place result differs from the
\* buffered one
C3_Witness ==
    /\ Updated
    /\ N >= 3
    /\ InPlaceNext(N, prev, N) # BufferedNext(prev, N)
    /\ grid = BufferedNext(prev, N)

\* C4: in every state the grid is an N x N array whose cells are all ON or
\* OFF.
C4_TwoValues ==
    /\ IsGrid(grid, N)
    /\ \A c \in Cells(N) : At(grid, c[1], c[2]) = ON \/ At(grid, c[1], c[2]) = OFF

\* a glider run after some updates, with cells of both values
C4_Witness ==
    /\ seed.kind = "glider"
    /\ gen >= 2
    /\ \E c \in Cells(N) : At(grid, c[1], c[2]) = ON
    /\ \E c \in Cells(N) : At(grid, c[1], c[2]) = OFF

\* C5: on an all-DEAD grid of size N >= 10 with the glider stamped at (1, 1),
\* after exactly 4 calls of update the grid is the glider at anchor (2, 2) and
\* DEAD everywhere else.
C5_GliderTranslation ==
    (seed = [kind |-> "glider", i |-> 1, j |-> 1] /\ N >= 10 /\ gen = 4)
        => grid = GliderAt(N, 2, 2)

\* the fourth generation of the glider run on a grid of size >= 10
C5_Witness ==
    /\ seed = [kind |-> "glider", i |-> 1, j |-> 1]
    /\ N >= 10
    /\ gen = 4
    /\ Updated
    /\ grid # prev

(* ------------------------ claims on the library runs ------------------- *)

Stamped == last.op = "add_glider"

\* the 3 x 3 region of anchor (a, b) lies inside the n x n grid
InBounds(a, b, n) == a >= 0 /\ a + 2 <= n - 1 /\ b >= 0 /\ b + 2 <= n - 1

\* g with the pattern DEAD DEAD ALIVE / ALIVE DEAD ALIVE / DEAD ALIVE ALIVE on
\* the region of anchor (a, b) and every other cell as it is in g
StampAt(g, a, b) ==
    [r \in DOMAIN g |-> [c \in DOMAIN g[r] |->
        IF (r - 1) \in a .. a + 2 /\ (c - 1) \in b .. b + 2
        THEN (IF <<r - 1 - a, c - 1 - b>> \in
                    {<<0, 2>>, <<1, 0>>, <<1, 2>>, <<2, 1>>, <<2, 2>>}
              THEN ON ELSE OFF)
        ELSE g[r][c]]]

\* C2: the total that update computes for a cell is the number of ALIVE cells
\* at its eight offsets, indices modulo N, counted with multiplicity; a single
\* ALIVE cell at (0, 0) of a 5 x 5 grid is counted by exactly the cells (4,4),
\* (4,0), (4,1), (0,4), (0,1), (1,4), (1,0), (1,1); the ALIVE cell of a 1 x 1
\* grid gets total 8.
C2_ToroidalCount ==
    Updated =>
        /\ \A c \in Cells(N) : TotalAt(c[1], c[2]) = NeighbourCount(prev, c[1], c[2], N)
        /\ (N = 5 /\ \A c \in Cells(N) : (At(prev, c[1], c[2]) = ON <=> c = <<0, 0>>))
             => \A c \in Cells(N) :
                   TotalAt(c[1], c[2]) =
                     IF c \in {<<4, 4>>, <<4, 0>>, <<4, 1>>, <<0, 4>>,
                               <<0, 1>>, <<1, 4>>, <<1, 0>>, <<1, 1>>}
                     THEN 1 ELSE 0
        /\ (N = 1 /\ At(prev, 0, 0) = ON) => TotalAt(0, 0) = 8

\* the update of the 5 x 5 grid whose only ALIVE cell is (0, 0)
C2_Witness ==
    /\ Updated
    /\ N = 5
    /\ \A c \in Cells(N) : (At(prev, c[1], c[2]) = ON <=> c = <<0, 0>>)
    /\ TotalAt(4, 4) = 1
    /\ TotalAt(2, 2) = 0

\* C6: add_glider at an anchor whose region lies inside the grid returns
\* normally, sets the region to the pattern and leaves every other cell as it
\* was before the call.
C6_StampFrame ==
    (Stamped /\ InBounds(last.a, last.b, N))
        => (last.ok /\ grid = StampAt(prev, last.a, last.b))

\* a stamp inside a grid that had ALIVE cells outside the region and an ALIVE
\* cell where the pattern is DEAD
C6_Witness ==
    /\ Stamped
    /\ last.ok
    /\ InBounds(last.a, last.b, N)
    /\ \E c \in Cells(N) :
          /\ ~(c[1] \in last.a .. last.a + 2 /\ c[2] \in last.b .. last.b + 2)
          /\ At(prev, c[1], c[2]) = ON
          /\ At(grid, c[1], c[2]) = ON
    /\ At(prev, last.a, last.b) = ON
    /\ At(grid, last.a, last.b) = OFF

\* C7 as stated: add_glider fails for every anchor whose region does not lie
\* within the grid, negative anchors included.
C7_FailsOutOfBounds ==
    (Stamped /\ ~InBounds(last.a, last.b, N)) => ~last.ok

\* an anchor component add_glider accepts: 0 .. n-3, or -n .. -4, which numpy
\* reads from the end of the axis
ValidAnchor(a, n) == (a >= 0 /\ a <= n - 3) \/ (a >= 0 - n /\ a <= -4)

FromEnd(a, n) == IF a < 0 THEN a + n ELSE a

\* C7 amended: add_glider fails for every anchor with a component greater
\* than N-3, in -3 .. -1 or less than -N; a component in -N .. -4 is read from
\* the end (component + N); the stamp returns normally exactly when both
\* components are in 0 .. N-3 or -N .. -4, and then the pattern lies inside
\* the grid at the anchor so read: no stamp wraps around an edge.
C7_FailsUnlessSliceFits ==
    Stamped =>
        /\ last.ok <=> (ValidAnchor(last.a, N) /\ ValidAnchor(last.b, N))
        /\ (\E x \in {last.a, last.b} : x > N - 3 \/ x \in -3 .. -1 \/ x < 0 - N)
             => (~last.ok /\ pc = "error")
        /\ last.ok =>
             /\ InBounds(FromEnd(last.a, N), FromEnd(last.b, N), N)
             /\ grid = StampAt(prev, FromEnd(last.a, N), FromEnd(last.b, N))

\* a stamp at a negative anchor that returned normally, and so stamped the
\* region counted from the end
C7_Witness ==
    /\ Stamped
    /\ last.ok
    /\ last.a = -4
    /\ last.b = -4
    /\ N = 5
    /\ At(grid, 1, 3) = ON

\* C8: when add_glider fails, the grid is the grid before the call.
C8_AllOrNothing ==
    (Stamped /\ ~last.ok) => (grid = prev /\ pc = "error")

\* the failed stamp at (3, 3) of a 5 x 5 grid, part of whose region is in the
\* grid
C8_Witness ==
    /\ Stamped
    /\ ~last.ok
    /\ N = 5
    /\ last.a = 3
    /\ last.b = 3
    /\ grid = prev
    /\ \E c \in Cells(N) : At(prev, c[1], c[2]) = ON

\* C10: every call of update returns normally and leaves a grid of the same
\* N x N cells, and update is enabled in every state from which the grid is
\* run, fixed points included.
C10_UpdateTotal ==
    /\ last.op = "update" =>
          (last.ok /\ pc = "run" /\ IsGrid(prev, N) /\ IsGrid(grid, N))
    /\ pc = "run" => ENABLED Update

\* the all-DEAD grid, a fixed point, after an update, with update enabled
C10_Witness ==
    /\ Updated
    /\ N >= 1
    /\ \A c \in Cells(N) : At(grid, c[1], c[2]) = OFF /\ At(prev, c[1], c[2]) = OFF
    /\ ENABLED Update

(* ---------------------- claims on the program, continued --------------- *)

Seeded == last.op = "random_grid"

\* C9 as stated: random_grid fails for every n <= 0 and returns no grid; for
\* n >= 1 it returns a fully populated n x n grid.
C9_FailsNonPositive ==
    Seeded =>
        /\ last.a <= 0 => (~last.ok /\ pc = "error" /\ grid = prev)
        /\ last.a >= 1 =>
             (last.ok /\ N = last.a /\ IsGrid(grid, last.a)
                /\ \A c \in Cells(last.a) : At(grid, c[1], c[2]) \in {ON, OFF})

\* C9 amended: random_grid fails for every n < 0 and returns no grid; for
\* n = 0 it returns normally, with an empty 0 x 0 grid; for n >= 1 it returns
\* a fully populated n x n grid.
C9_FailsNegative ==
    Seeded =>
        /\ last.a < 0 => (~last.ok /\ pc = "error" /\ grid = prev)
        /\ last.a = 0 => (last.ok /\ pc = "run" /\ N = 0 /\ grid = EmptyGrid)
        /\ last.a >= 1 =>
             (last.ok /\ N = last.a /\ IsGrid(grid, last.a)
                /\ \A c \in Cells(last.a) : At(grid, c[1], c[2]) \in {ON, OFF})

\* random_grid(0) has returned an empty grid
C9_Witness ==
    /\ Seeded
    /\ last.a = 0
    /\ last.ok
    /\ pc = "run"
    /\ grid = EmptyGrid
    /\ N = 0

(* ----------------------- claims on the runs of main -------------------- *)

\* the grid size --grid-size asks for, when the text is the decimal text of
\* an integer of the model
Configured(k) == args.given /\ args.text = Text(k)

\* C11: once main has set N, N is never 8 or less: it is the integer given to
\* --grid-size when that is greater than 8, and 100 when it is 8 or less or
\* when no --grid-size is given; the grid that main then creates and update
\* steps has N rows of N cells.
C11_RejectsSmallSize ==
    pc \in {"start", "stamp", "run"} =>
        /\ N > 8
        /\ \A k \in Sizes :
              Configured(k) => N = (IF k > 8 THEN k ELSE 100)
        /\ ~args.given => N = 100
        /\ pc \in {"stamp", "run"} => IsGrid(grid, N)

\* a run of main with --grid-size 8 that has stepped a 100 x 100 grid
C11_Witness ==
    /\ Configured(8)
    /\ pc = "run"
    /\ Updated
    /\ N = 100
    /\ IsGrid(grid, 100)
    /\ IsGrid(prev, 100)

(* --------------------- claims on the shifted library runs -------------- *)

\* C12: update commutes with every cyclic shift: whenever update has taken
\* the grid prev to grid, then for every shift (a, b), a and b modulo N,
\* update returns normally on prev shifted by (a, b), and its result is grid
\* shifted by (a, b).
C12_ShiftCommutes ==
    Updated =>
        \A a \in 0 .. N - 1, b \in 0 .. N - 1 :
            \E r \in {UpdateCall(Shift(prev, a, b, N), N)} :
                ~r.raised /\ r.new_grid = Shift(grid, a, b, N)

\* an update that changed a grid with an ALIVE corner, and a shift that moves
\* both the grid before and the grid after
C12_Witness ==
    /\ Updated
    /\ N >= 3
    /\ At(prev, 0, 0) = ON
    /\ grid # prev
    /\ \E a \in 0 .. N - 1, b \in 0 .. N - 1 :
          /\ Shift(prev, a, b, N) # prev
          /\ Shift(grid, a, b, N) # grid
          /\ UpdateCall(Shift(prev, a, b, N), N).new_grid = Shift(grid, a, b, N)

(* ------------------------- claims on the glider runs ------------------- *)

GliderRun == seed = [kind |-> "glider", i |-> 1, j |-> 1]

\* C13: in a glider run (an all-zero N x N grid with N > 8, add_glider at
\* (1, 1), then any number of calls of update) no call fails and the grid of
\* every generation has exactly 5 ALIVE cells.
C13_FiveAlive ==
    GliderRun =>
        /\ N > 8
        /\ pc = "run"
        /\ last.ok
        /\ AliveCount(grid, N) = 5

\* a generation of a glider run, past the MaxGen-th, in which the glider lies
\* across the wrapped edges: it has cells in the first and the last row, and
\* in the first and the last column
C13_Witness ==
    /\ GliderRun
    /\ Updated
    /\ gen = MaxGen
    /\ \E j \in 0 .. N - 1 : At(grid, 0, j) = ON
    /\ \E j \in 0 .. N - 1 : At(grid, N - 1, j) = ON
    /\ \E i \in 0 .. N - 1 : At(grid, i, 0) = ON
    /\ \E i \in 0 .. N - 1 : At(grid, i, N - 1) = ON
    /\ AliveCount(grid, N) = 5
    /\ AliveCount(prev, N) = 5

====
